---- MODULE Spec2Model ----
(***************************************************************************)
(* wpaperd: the output-surface registry (Wpaperd::surfaces), the shared    *)
(* wallpaper configuration and the Wayland event handlers of               *)
(* daemon/src/wpaperd.rs.  Every handler runs to completion on the single  *)
(* event thread, so each handler is one action.                            *)
(***************************************************************************)
EXTENDS Integers, Sequences, FiniteSets, TLC

(***************************************************************************)
(* Bounds of the model.                                                    *)
(***************************************************************************)
\* largest integer scale factor an output or a surface event reports
MaxScale == 2

Scales == 1..MaxScale

\* the machine's connectors; wl_output handle o is announced under the name
\* of connector o
ConnectorNames == <<"eDP-1", "HDMI-1">>
Outputs == DOMAIN ConnectorNames
OutputName(o) == ConnectorNames[o]

\* sizes a layer-surface configure can propose; (0, 0) is also the size a
\* Surface holds before its first configure
NoSize == <<0, 0>>
Sizes == {NoSize, <<1920, 1080>>}

Transforms == {"Normal", "Flipped"}

(***************************************************************************)
(* WallpaperConfig: the path it was loaded from, the per-output settings   *)
(* and the fallback entry.  ConfigPath is the one file the daemon watches. *)
(***************************************************************************)
ConfigPath == "wallpaper.toml"

EmptyData == [n \in {} |-> "D"]

\* the contents the configuration file can have when it is (re)parsed
FileConfigs ==
    { [path |-> ConfigPath, data |-> [n \in {"eDP-1"} |-> "A"], default_config |-> "D"],
      [path |-> ConfigPath, data |-> [n \in {"HDMI-1"} |-> "B"], default_config |-> "C"] }

WallpaperInfos == {"A", "B", "C", "D"}

\* what the file holds when it is read: text that does not parse, or text
\* that parses to per-output settings and a fallback entry
Unparsable == [parses |-> FALSE, data |-> EmptyData, default_config |-> "D"]
FileContents ==
    {Unparsable} \cup
    {[parses |-> TRUE, data |-> c.data, default_config |-> c.default_config] :
        c \in FileConfigs}

\* WallpaperConfig::new_from_path: Err for a file that does not parse,
\* otherwise the parsed configuration, recorded with the path it came from
new_from_path(path, content) ==
    IF ~content.parses
    THEN [ok |-> FALSE]
    ELSE [ok |-> TRUE,
          config |-> [path |-> path, data |-> content.data,
                      default_config |-> content.default_config]]

\* WallpaperConfig's ==: equality of the whole value
config_eq(a, b) == a = b

\* WallpaperConfig::get_output_by_name: the entry for exactly this name,
\* the fallback entry otherwise
get_output_by_name(config, name) ==
    IF name \in DOMAIN config.data THEN config.data[name] ELSE config.default_config

VARIABLES
    surfaces,          \* Wpaperd::surfaces, a Vec<Surface>
    wallpaper_config,  \* the value behind Arc<Mutex<WallpaperConfig>>
    use_scaled_window, \* Wpaperd::use_scaled_window
    outputs,           \* OutputState: the wl_output handles that are live
    panicked,          \* an unwrap() failed: the process has aborted
    event,             \* the event the last handler was dispatched for
    calls,             \* what the last handler did, in program order
    result,            \* what the last handler returned
    acked,             \* layer handles a configure event has been handled for
    mutex,             \* who holds the Mutex around the WallpaperConfig
    reload_pc,         \* where a reload on the reloading thread stands
    reload_new,        \* reload_config's new_config
    event_pc,          \* where a new_output on the event thread stands
    event_tmp          \* new_output's locals

lock_vars == <<mutex, reload_pc, reload_new, event_pc, event_tmp>>

vars == <<surfaces, wallpaper_config, use_scaled_window, outputs, panicked,
          event, calls, result, acked, lock_vars>>

Min(S) == CHOOSE x \in S : \A y \in S : x <= y

\* Vec::swap_remove: the last element takes the place of the removed one
swap_remove(v, i) ==
    [j \in 1..(Len(v) - 1) |-> IF j = i THEN v[Len(v)] ELSE v[j]]

\* the positions an iterator's find() can stop at
by_surface(v, surface) == {i \in 1..Len(v) : v[i].surface.id = surface}
by_output(v, output) == {i \in 1..Len(v) : v[i].output = output}
by_layer(v, layer) == {i \in 1..Len(v) : v[i].layer = layer}

\* Surface::new: a Surface that has no size yet and is not configured
Surface_new(name, layer, output, surface, scale_factor, wallpaper_info) ==
    [name |-> name, layer |-> layer, output |-> output, surface |-> surface,
     scale |-> scale_factor, wallpaper_info |-> wallpaper_info,
     dimensions |-> NoSize, configured |-> FALSE]

\* Surface::resize: with a configure it takes the proposed size, without one
\* it keeps the last known size; a failed resize leaves the Surface as it was
None == <<>>
Surface_resize(s, new_size, ok) ==
    IF ok /\ new_size # None THEN [s EXCEPT !.dimensions = new_size] ELSE s

\* the wl_surface and layer handles in use, and the lowest free one (Wayland
\* hands out the lowest free object id)
surface_ids(v) == {v[i].surface.id : i \in 1..Len(v)}
layer_ids(v) == {v[i].layer : i \in 1..Len(v)}
fresh_id(v) == Min({n \in 1..(Len(v) + 1) : n \notin surface_ids(v)})

\* Option::unwrap on None
Abort ==
    /\ panicked' = TRUE
    /\ UNCHANGED <<surfaces, wallpaper_config, event, calls, result>>

(***************************************************************************)
(* The handlers.  Each one says what it does to surfaces,                  *)
(* wallpaper_config, panicked, event, calls and result.                    *)
(***************************************************************************)

\* reload_config with a failed parse clearing the store instead of keeping it
reload_config_clear_on_err(content) ==
    LET new_config == new_from_path(wallpaper_config.path, content) IN
    /\ event' = [kind |-> "reload_config", content |-> content]
    /\ UNCHANGED <<surfaces, panicked>>
    /\ IF new_config.ok
       THEN /\ IF ~config_eq(wallpaper_config, new_config.config)
               THEN /\ wallpaper_config' = new_config.config
                    /\ calls' = << <<"store_config">>,
                                   <<"log_info", "Configuration updated">> >>
               ELSE /\ wallpaper_config' = wallpaper_config
                    /\ calls' = <<>>
            /\ result' = "Ok"
       ELSE /\ wallpaper_config' = [wallpaper_config EXCEPT !.data = EmptyData]
            /\ calls' = << <<"log_error">> >>
            /\ result' = "Err"

\* reload_config without the comparison: every successful parse is stored
\* and announced
reload_config_always_store(content) ==
    LET new_config == new_from_path(wallpaper_config.path, content) IN
    /\ event' = [kind |-> "reload_config", content |-> content]
    /\ UNCHANGED <<surfaces, panicked>>
    /\ IF new_config.ok
       THEN /\ wallpaper_config' = new_config.config
            /\ calls' = << <<"store_config">>,
                           <<"log_info", "Configuration updated">> >>
            /\ result' = "Ok"
       ELSE /\ wallpaper_config' = wallpaper_config
            /\ calls' = << <<"log_error">> >>
            /\ result' = "Err"

\* reload_config that also re-resolves the settings of the existing Surfaces
reload_config_push(content) ==
    LET new_config == new_from_path(wallpaper_config.path, content) IN
    /\ event' = [kind |-> "reload_config", content |-> content]
    /\ UNCHANGED panicked
    /\ IF new_config.ok
       THEN /\ IF ~config_eq(wallpaper_config, new_config.config)
               THEN /\ wallpaper_config' = new_config.config
                    /\ surfaces' = [i \in 1..Len(surfaces) |->
                          [surfaces[i] EXCEPT !.wallpaper_info =
                              get_output_by_name(new_config.config, surfaces[i].name)]]
                    /\ calls' = << <<"store_config">>,
                                   <<"log_info", "Configuration updated">> >>
               ELSE /\ wallpaper_config' = wallpaper_config
                    /\ surfaces' = surfaces
                    /\ calls' = <<>>
            /\ result' = "Ok"
       ELSE /\ wallpaper_config' = wallpaper_config
            /\ surfaces' = surfaces
            /\ calls' = << <<"log_error">> >>
            /\ result' = "Err"

\* reload_config replacing the per-output settings only, field by field,
\* and leaving the fallback entry of the old configuration
reload_config_data_only(content) ==
    LET new_config == new_from_path(wallpaper_config.path, content) IN
    /\ event' = [kind |-> "reload_config", content |-> content]
    /\ UNCHANGED <<surfaces, panicked>>
    /\ IF new_config.ok
       THEN /\ IF ~config_eq(wallpaper_config, new_config.config)
               THEN /\ wallpaper_config' =
                          [wallpaper_config EXCEPT !.data = new_config.config.data]
                    /\ calls' = << <<"store_config">>,
                                   <<"log_info", "Configuration updated">> >>
               ELSE /\ wallpaper_config' = wallpaper_config
                    /\ calls' = <<>>
            /\ result' = "Ok"
       ELSE /\ wallpaper_config' = wallpaper_config
            /\ calls' = << <<"log_error">> >>
            /\ result' = "Err"

\* Wpaperd::reload_config; content is what the file holds when it is read
reload_config(content) ==
    LET new_config == new_from_path(wallpaper_config.path, content) IN
    /\ event' = [kind |-> "reload_config", content |-> content]
    /\ UNCHANGED <<surfaces, panicked>>
    /\ IF new_config.ok
       THEN /\ IF ~config_eq(wallpaper_config, new_config.config)
               THEN /\ wallpaper_config' = new_config.config
                    /\ calls' = << <<"store_config">>,
                                   <<"log_info", "Configuration updated">> >>
               ELSE /\ wallpaper_config' = wallpaper_config
                    /\ calls' = <<>>
            /\ result' = "Ok"
       ELSE /\ wallpaper_config' = wallpaper_config
            /\ calls' = << <<"log_error">> >>
            /\ result' = "Err"

\* scale_factor_changed without the "ignore unnecessary updates" test
scale_factor_changed_unchecked(surface, new_factor, ok) ==
    LET found == by_surface(surfaces, surface) IN
    IF found = {} THEN Abort
    ELSE
      LET i == Min(found)
          s == surfaces[i]
      IN
      /\ event' = [kind |-> "scale_factor_changed", surface |-> surface,
                   new_factor |-> new_factor]
      /\ result' = "unit"
      /\ UNCHANGED <<wallpaper_config, panicked>>
      /\ surfaces' = [surfaces EXCEPT ![i] =
            Surface_resize([s EXCEPT !.scale = new_factor,
                                     !.surface.buffer_scale = new_factor],
                           None, ok)]
      /\ calls' = << <<"set_buffer_scale", surface, new_factor>>,
                     <<"resize", surface, None, ok>> >>

\* scale_factor_changed that tells the render target but does not store the
\* new factor in the Surface
scale_factor_changed_not_stored(surface, new_factor, ok) ==
    LET found == by_surface(surfaces, surface) IN
    IF found = {} THEN Abort
    ELSE
      LET i == Min(found)
          s == surfaces[i]
      IN
      /\ event' = [kind |-> "scale_factor_changed", surface |-> surface,
                   new_factor |-> new_factor]
      /\ result' = "unit"
      /\ UNCHANGED <<wallpaper_config, panicked>>
      /\ IF s.scale # new_factor
         THEN /\ surfaces' = [surfaces EXCEPT ![i] =
                    Surface_resize([s EXCEPT !.surface.buffer_scale = new_factor],
                                   None, ok)]
              /\ calls' = << <<"set_buffer_scale", surface, new_factor>>,
                             <<"resize", surface, None, ok>> >>
         ELSE /\ surfaces' = surfaces
              /\ calls' = <<>>

\* scale_factor_changed marking the Surface as waiting for a new configure
scale_factor_changed_unconfigures(surface, new_factor, ok) ==
    LET found == by_surface(surfaces, surface) IN
    IF found = {} THEN Abort
    ELSE
      LET i == Min(found)
          s == surfaces[i]
      IN
      /\ event' = [kind |-> "scale_factor_changed", surface |-> surface,
                   new_factor |-> new_factor]
      /\ result' = "unit"
      /\ UNCHANGED <<wallpaper_config, panicked>>
      /\ IF s.scale # new_factor
         THEN /\ surfaces' = [surfaces EXCEPT ![i] =
                    Surface_resize([s EXCEPT !.scale = new_factor,
                                             !.surface.buffer_scale = new_factor,
                                             !.configured = FALSE],
                                   None, ok)]
              /\ calls' = << <<"set_buffer_scale", surface, new_factor>>,
                             <<"resize", surface, None, ok>> >>
         ELSE /\ surfaces' = surfaces
              /\ calls' = <<>>

\* CompositorHandler::scale_factor_changed; ok is whether the resize succeeds
scale_factor_changed(surface, new_factor, ok) ==
    LET found == by_surface(surfaces, surface) IN
    IF found = {} THEN Abort
    ELSE
      LET i == Min(found)
          s == surfaces[i]
      IN
      /\ event' = [kind |-> "scale_factor_changed", surface |-> surface,
                   new_factor |-> new_factor]
      /\ result' = "unit"
      /\ UNCHANGED <<wallpaper_config, panicked>>
      /\ IF s.scale # new_factor
         THEN /\ surfaces' = [surfaces EXCEPT ![i] =
                    Surface_resize([s EXCEPT !.scale = new_factor,
                                             !.surface.buffer_scale = new_factor],
                                   None, ok)]
              /\ calls' = << <<"set_buffer_scale", surface, new_factor>>,
                             <<"resize", surface, None, ok>> >>
         ELSE /\ surfaces' = surfaces
              /\ calls' = <<>>

\* transform_changed that also resizes the Surface for the new orientation
transform_changed_resize(surface, new_transform) ==
    LET found == by_surface(surfaces, surface) IN
    IF found = {} THEN Abort
    ELSE
      LET i == Min(found)
          s == surfaces[i]
      IN
      /\ event' = [kind |-> "transform_changed", surface |-> surface,
                   new_transform |-> new_transform]
      /\ result' = "unit"
      /\ calls' = << <<"set_buffer_transform", surface, new_transform>>,
                     <<"resize", surface, None, TRUE>> >>
      /\ surfaces' = [surfaces EXCEPT ![i] =
            [s EXCEPT !.dimensions = <<s.dimensions[2], s.dimensions[1]>>]]
      /\ UNCHANGED <<wallpaper_config, panicked>>

\* CompositorHandler::transform_changed
transform_changed(surface, new_transform) ==
    LET found == by_surface(surfaces, surface) IN
    IF found = {} THEN Abort
    ELSE
      /\ event' = [kind |-> "transform_changed", surface |-> surface,
                   new_transform |-> new_transform]
      /\ result' = "unit"
      /\ calls' = << <<"set_buffer_transform", surface, new_transform>> >>
      /\ UNCHANGED <<surfaces, wallpaper_config, panicked>>

\* new_output looking the settings up under the layer's name, "wpaperd-<name>",
\* instead of the output's name
new_output_by_layer_name(output, info) ==
    LET id == fresh_id(surfaces)
        scale == IF use_scaled_window THEN 1 ELSE info.scale_factor
        surface == [id |-> id, buffer_scale |-> scale]
        name == info.name
        layer == id
        wallpaper_info == get_output_by_name(wallpaper_config, <<"wpaperd-", name>>)
    IN
    /\ event' = [kind |-> "new_output", output |-> output, info |-> info]
    /\ result' = "unit"
    /\ calls' = << <<"create_surface", id>>,
                   <<"set_buffer_scale", id, scale>>,
                   <<"create_layer_surface", layer, <<"wpaperd-", name>>, output>>,
                   <<"set_anchor", layer, {"TOP", "LEFT", "RIGHT", "BOTTOM"}>>,
                   <<"set_exclusive_zone", layer, -1>>,
                   <<"set_size", layer, NoSize>>,
                   <<"set_input_region", id, {}>> >>
    /\ surfaces' = Append(surfaces,
                          Surface_new(name, layer, output, surface,
                                      info.scale_factor, wallpaper_info))
    /\ UNCHANGED <<wallpaper_config, panicked>>

\* OutputHandler::new_output; info is what OutputState holds for the output
new_output(output, info) ==
    LET id == fresh_id(surfaces)
        scale == IF use_scaled_window THEN 1 ELSE info.scale_factor
        surface == [id |-> id, buffer_scale |-> scale]
        name == info.name
        layer == id
        wallpaper_info == get_output_by_name(wallpaper_config, name)
    IN
    /\ event' = [kind |-> "new_output", output |-> output, info |-> info]
    /\ result' = "unit"
    /\ calls' = << <<"create_surface", id>>,
                   <<"set_buffer_scale", id, scale>>,
                   <<"create_layer_surface", layer, <<"wpaperd-", name>>, output>>,
                   <<"set_anchor", layer, {"TOP", "LEFT", "RIGHT", "BOTTOM"}>>,
                   <<"set_exclusive_zone", layer, -1>>,
                   <<"set_size", layer, NoSize>>,
                   <<"set_input_region", id, {}>> >>
    /\ surfaces' = Append(surfaces,
                          Surface_new(name, layer, output, surface,
                                      info.scale_factor, wallpaper_info))
    /\ UNCHANGED <<wallpaper_config, panicked>>

\* OutputHandler::update_output
update_output(output) ==
    /\ event' = [kind |-> "update_output", output |-> output]
    /\ result' = "unit"
    /\ calls' = <<>>
    /\ UNCHANGED <<surfaces, wallpaper_config, panicked>>

\* output_destroyed popping the last Surface instead of the one it found
output_destroyed_pop(output) ==
    LET found == by_output(surfaces, output) IN
    IF found = {} THEN Abort
    ELSE
      /\ event' = [kind |-> "output_destroyed", output |-> output]
      /\ result' = "unit"
      /\ calls' = <<>>
      /\ surfaces' = swap_remove(surfaces, Len(surfaces))
      /\ UNCHANGED <<wallpaper_config, panicked>>

\* output_destroyed with Vec::truncate: the Surface found and all after it go
output_destroyed_truncate(output) ==
    LET found == by_output(surfaces, output) IN
    IF found = {} THEN Abort
    ELSE
      /\ event' = [kind |-> "output_destroyed", output |-> output]
      /\ result' = "unit"
      /\ calls' = <<>>
      /\ surfaces' = SubSeq(surfaces, 1, Min(found) - 1)
      /\ UNCHANGED <<wallpaper_config, panicked>>

\* output_destroyed that returns when it finds no Surface for the output
output_destroyed_ignore_missing(output) ==
    LET found == by_output(surfaces, output) IN
    /\ event' = [kind |-> "output_destroyed", output |-> output]
    /\ result' = "unit"
    /\ calls' = <<>>
    /\ surfaces' = (IF found = {} THEN surfaces
                    ELSE swap_remove(surfaces, Min(found)))
    /\ UNCHANGED <<wallpaper_config, panicked>>

\* OutputHandler::output_destroyed
output_destroyed(output) ==
    LET found == by_output(surfaces, output) IN
    IF found = {} THEN Abort
    ELSE
      /\ event' = [kind |-> "output_destroyed", output |-> output]
      /\ result' = "unit"
      /\ calls' = <<>>
      /\ surfaces' = swap_remove(surfaces, Min(found))
      /\ UNCHANGED <<wallpaper_config, panicked>>

\* configure setting the flag before it resizes
configure_flag_first(layer, new_size, ok) ==
    LET found == by_layer(surfaces, layer) IN
    IF found = {} THEN Abort
    ELSE
      LET i == Min(found)
          s == [surfaces[i] EXCEPT !.configured = TRUE]
          differs == s.dimensions # new_size
          resized == IF differs THEN Surface_resize(s, new_size, ok) ELSE s
      IN
      /\ event' = [kind |-> "configure", layer |-> layer, new_size |-> new_size]
      /\ result' = "unit"
      /\ calls' = << <<"set_configured", layer>> >>
                  \o (IF differs THEN << <<"resize", s.surface.id, new_size, ok>> >>
                                 ELSE <<>>)
      /\ surfaces' = [surfaces EXCEPT ![i] = resized]
      /\ UNCHANGED <<wallpaper_config, panicked>>

\* configure setting the flag of every Surface, not only the one it found
configure_all(layer, new_size, ok) ==
    LET found == by_layer(surfaces, layer) IN
    IF found = {} THEN Abort
    ELSE
      LET i == Min(found)
          s == surfaces[i]
          differs == s.dimensions # new_size
          resized == IF differs THEN Surface_resize(s, new_size, ok) ELSE s
      IN
      /\ event' = [kind |-> "configure", layer |-> layer, new_size |-> new_size]
      /\ result' = "unit"
      /\ calls' = (IF differs THEN << <<"resize", s.surface.id, new_size, ok>> >>
                              ELSE <<>>)
                  \o << <<"set_configured", layer>> >>
      /\ surfaces' = [j \in 1..Len(surfaces) |->
                        [(IF j = i THEN resized ELSE surfaces[j])
                            EXCEPT !.configured = TRUE]]
      /\ UNCHANGED <<wallpaper_config, panicked>>

\* configure without the comparison: it resizes on every event
configure_always_resize(layer, new_size, ok) ==
    LET found == by_layer(surfaces, layer) IN
    IF found = {} THEN Abort
    ELSE
      LET i == Min(found)
          s == surfaces[i]
          resized == Surface_resize(s, new_size, ok)
      IN
      /\ event' = [kind |-> "configure", layer |-> layer, new_size |-> new_size]
      /\ result' = "unit"
      /\ calls' = << <<"resize", s.surface.id, new_size, ok>>,
                     <<"set_configured", layer>> >>
      /\ surfaces' = [surfaces EXCEPT ![i] = [resized EXCEPT !.configured = TRUE]]
      /\ UNCHANGED <<wallpaper_config, panicked>>

\* LayerShellHandler::configure; ok is whether the resize succeeds
configure(layer, new_size, ok) ==
    LET found == by_layer(surfaces, layer) IN
    IF found = {} THEN Abort
    ELSE
      LET i == Min(found)
          s == surfaces[i]
          differs == s.dimensions # new_size
          resized == IF differs THEN Surface_resize(s, new_size, ok) ELSE s
      IN
      /\ event' = [kind |-> "configure", layer |-> layer, new_size |-> new_size]
      /\ result' = "unit"
      /\ calls' = (IF differs THEN << <<"resize", s.surface.id, new_size, ok>> >>
                              ELSE <<>>)
                  \o << <<"set_configured", layer>> >>
      /\ surfaces' = [surfaces EXCEPT ![i] = [resized EXCEPT !.configured = TRUE]]
      /\ UNCHANGED <<wallpaper_config, panicked>>

\* Surface::draw, asked for by the event loop: a Surface that is not
\* configured yet is skipped
draw(surface) ==
    LET found == by_surface(surfaces, surface) IN
    /\ found # {}
    /\ event' = [kind |-> "draw", surface |-> surface]
    /\ result' = "unit"
    /\ calls' = (IF surfaces[Min(found)].configured
                 THEN << <<"render", surface>> >> ELSE <<>>)
    /\ UNCHANGED <<surfaces, wallpaper_config, panicked>>

(***************************************************************************)
(* The event loop: the display server's events, in the order the protocol  *)
(* allows, the reload trigger and the redraw.  OutputState and the ghost   *)
(* acked follow the objects the display server creates and destroys.       *)
(***************************************************************************)
dispatch_reload_config ==
    \E content \in FileContents :
        /\ ~panicked
        /\ reload_config(content)
        /\ UNCHANGED <<lock_vars, use_scaled_window, outputs, acked>>

dispatch_scale_factor_changed ==
    \E surface \in surface_ids(surfaces), new_factor \in Scales, ok \in BOOLEAN :
        /\ ~panicked
        /\ scale_factor_changed(surface, new_factor, ok)
        /\ UNCHANGED <<lock_vars, use_scaled_window, outputs, acked>>

dispatch_transform_changed ==
    \E surface \in surface_ids(surfaces), new_transform \in Transforms :
        /\ ~panicked
        /\ transform_changed(surface, new_transform)
        /\ UNCHANGED <<lock_vars, use_scaled_window, outputs, acked>>

dispatch_new_output ==
    \E o \in Outputs \ outputs, scale_factor \in Scales :
        LET info == [name |-> OutputName(o), scale_factor |-> scale_factor] IN
        /\ ~panicked
        /\ outputs' = outputs \cup {o}
        /\ new_output(o, info)
        /\ UNCHANGED <<lock_vars, use_scaled_window, acked>>

dispatch_update_output ==
    \E o \in outputs :
        /\ ~panicked
        /\ update_output(o)
        /\ UNCHANGED <<lock_vars, use_scaled_window, outputs, acked>>

dispatch_output_destroyed ==
    \E o \in outputs :
        /\ ~panicked
        /\ output_destroyed(o)
        /\ outputs' = outputs \ {o}
        /\ acked' = acked \ {surfaces[i].layer : i \in by_output(surfaces, o)}
        /\ UNCHANGED <<lock_vars, use_scaled_window>>

dispatch_configure ==
    \E layer \in layer_ids(surfaces), new_size \in Sizes, ok \in BOOLEAN :
        /\ ~panicked
        /\ configure(layer, new_size, ok)
        /\ acked' = acked \cup {layer}
        /\ UNCHANGED <<lock_vars, use_scaled_window, outputs>>

dispatch_draw ==
    \E surface \in surface_ids(surfaces) :
        /\ ~panicked
        /\ draw(surface)
        /\ UNCHANGED <<lock_vars, use_scaled_window, outputs, acked>>

Init ==
    /\ surfaces = <<>>
    /\ wallpaper_config \in FileConfigs
    /\ use_scaled_window \in BOOLEAN
    /\ outputs = {}
    /\ panicked = FALSE
    /\ event = [kind |-> "start"]
    /\ calls = <<>>
    /\ result = "unit"
    /\ acked = {}
    /\ mutex = "free"
    /\ reload_pc = "idle"
    /\ reload_new = [ok |-> FALSE]
    /\ event_pc = "idle"
    /\ event_tmp = [output |-> 0]

Next ==
    \/ dispatch_reload_config
    \/ dispatch_scale_factor_changed
    \/ dispatch_transform_changed
    \/ dispatch_new_output
    \/ dispatch_update_output
    \/ dispatch_output_destroyed
    \/ dispatch_configure
    \/ dispatch_draw

Spec == Init /\ [][Next]_vars

(***************************************************************************)
(* The same event loop with a display server that breaks its guarantee:    *)
(* events that name a wl_surface, a layer or an output the registry holds  *)
(* no Surface for.                                                         *)
(***************************************************************************)
\* the handles a wl_surface or layer event can carry
HandleIds == 1..(Cardinality(Outputs) + 1)

stray_scale_factor_changed ==
    \E surface \in HandleIds \ surface_ids(surfaces), new_factor \in Scales,
       ok \in BOOLEAN :
        /\ ~panicked
        /\ scale_factor_changed(surface, new_factor, ok)
        /\ UNCHANGED <<lock_vars, use_scaled_window, outputs, acked>>

stray_transform_changed ==
    \E surface \in HandleIds \ surface_ids(surfaces), new_transform \in Transforms :
        /\ ~panicked
        /\ transform_changed(surface, new_transform)
        /\ UNCHANGED <<lock_vars, use_scaled_window, outputs, acked>>

stray_output_destroyed ==
    \E o \in Outputs \ outputs :
        /\ ~panicked
        /\ output_destroyed(o)
        /\ UNCHANGED <<lock_vars, use_scaled_window, outputs, acked>>

stray_configure ==
    \E layer \in HandleIds \ layer_ids(surfaces), new_size \in Sizes, ok \in BOOLEAN :
        /\ ~panicked
        /\ configure(layer, new_size, ok)
        /\ UNCHANGED <<lock_vars, use_scaled_window, outputs, acked>>

\* the events that fill, change and empty the registry, and the stray ones
NextStray ==
    \/ dispatch_new_output
    \/ dispatch_output_destroyed
    \/ dispatch_configure
    \/ dispatch_scale_factor_changed
    \/ stray_scale_factor_changed
    \/ stray_transform_changed
    \/ stray_output_destroyed
    \/ stray_configure

SpecStray == Init /\ [][NextStray]_vars

(***************************************************************************)
(* The Mutex around the WallpaperConfig, with a reload running on a thread *)
(* of its own beside the event thread.  A handler is no longer one step:   *)
(* reload_config and new_output are cut where they take the lock, use the  *)
(* value and drop the guard, and the assignment *wallpaper_config = config *)
(* writes the value one part after the other.  event, calls and result     *)
(* describe the single-threaded loop and are left alone here.              *)
(***************************************************************************)
loop_vars == <<use_scaled_window, panicked, event, calls, result, acked>>

\* the reload is triggered
r_start ==
    /\ reload_pc = "idle"
    /\ reload_pc' = "lock"
    /\ UNCHANGED <<surfaces, wallpaper_config, outputs, mutex, reload_new,
                   event_pc, event_tmp, loop_vars>>

\* reload_config: self.wallpaper_config.lock().unwrap()
r_lock ==
    /\ reload_pc = "lock"
    /\ mutex = "free"
    /\ mutex' = "reload"
    /\ reload_pc' = "parse"
    /\ UNCHANGED <<surfaces, wallpaper_config, outputs, reload_new,
                   event_pc, event_tmp, loop_vars>>

\* r_parse dropping the guard once it has compared, before it stores
r_parse_unguarded_store(content) ==
    LET new_config == new_from_path(wallpaper_config.path, content) IN
    /\ reload_pc = "parse"
    /\ reload_new' = new_config
    /\ IF new_config.ok /\ ~config_eq(wallpaper_config, new_config.config)
       THEN reload_pc' = "store_data" /\ mutex' = "free"
       ELSE reload_pc' = "unlock" /\ mutex' = mutex
    /\ UNCHANGED <<surfaces, wallpaper_config, outputs,
                   event_pc, event_tmp, loop_vars>>

\* r_parse returning the error without letting go of the lock
r_parse_keeps_lock_on_err(content) ==
    LET new_config == new_from_path(wallpaper_config.path, content) IN
    /\ reload_pc = "parse"
    /\ reload_new' = new_config
    /\ reload_pc' = (IF ~new_config.ok THEN "idle"
                     ELSE IF ~config_eq(wallpaper_config, new_config.config)
                     THEN "store_data" ELSE "unlock")
    /\ UNCHANGED <<surfaces, wallpaper_config, outputs, mutex,
                   event_pc, event_tmp, loop_vars>>

\* reload_config: new_from_path and the match on its result, under the lock
r_parse(content) ==
    LET new_config == new_from_path(wallpaper_config.path, content) IN
    /\ reload_pc = "parse"
    /\ reload_new' = new_config
    /\ reload_pc' = (IF new_config.ok /\ ~config_eq(wallpaper_config, new_config.config)
                     THEN "store_data" ELSE "unlock")
    /\ UNCHANGED <<surfaces, wallpaper_config, outputs, mutex,
                   event_pc, event_tmp, loop_vars>>

\* reload_config: *wallpaper_config = config, the per-output settings first
r_store_data ==
    /\ reload_pc = "store_data"
    /\ wallpaper_config' = [wallpaper_config EXCEPT !.data = reload_new.config.data]
    /\ reload_pc' = "store_rest"
    /\ UNCHANGED <<surfaces, outputs, mutex, reload_new,
                   event_pc, event_tmp, loop_vars>>

\* reload_config: *wallpaper_config = config, the rest of the value
r_store_rest ==
    /\ reload_pc = "store_rest"
    /\ wallpaper_config' = reload_new.config
    /\ reload_pc' = "unlock"
    /\ UNCHANGED <<surfaces, outputs, mutex, reload_new,
                   event_pc, event_tmp, loop_vars>>

\* reload_config returns: the guard goes out of scope
r_unlock ==
    /\ reload_pc = "unlock"
    /\ mutex' = "free"
    /\ reload_pc' = "idle"
    /\ UNCHANGED <<surfaces, wallpaper_config, outputs, reload_new,
                   event_pc, event_tmp, loop_vars>>

\* new_output up to the lookup: the wl_surface, its buffer scale, the layer
e_begin ==
    \E o \in Outputs \ outputs, scale_factor \in Scales :
        LET id == fresh_id(surfaces)
            scale == IF use_scaled_window THEN 1 ELSE scale_factor
        IN
        /\ event_pc = "idle"
        /\ outputs' = outputs \cup {o}
        /\ event_tmp' = [output |-> o,
                         info |-> [name |-> OutputName(o), scale_factor |-> scale_factor],
                         surface |-> [id |-> id, buffer_scale |-> scale],
                         layer |-> id]
        /\ event_pc' = "lock"
        /\ UNCHANGED <<surfaces, wallpaper_config, mutex, reload_pc, reload_new,
                       loop_vars>>

\* new_output: self.wallpaper_config.lock().unwrap()
e_lock ==
    /\ event_pc = "lock"
    /\ mutex = "free"
    /\ mutex' = "event"
    /\ event_pc' = "lookup"
    /\ UNCHANGED <<surfaces, wallpaper_config, outputs, reload_pc, reload_new,
                   event_tmp, loop_vars>>

\* new_output: .get_output_by_name(&name), through the guard; seen is the
\* value the lookup read
e_lookup ==
    /\ event_pc = "lookup"
    /\ event_tmp' = [output |-> event_tmp.output, info |-> event_tmp.info,
                     surface |-> event_tmp.surface, layer |-> event_tmp.layer,
                     wallpaper_info |->
                        get_output_by_name(wallpaper_config, event_tmp.info.name),
                     seen |-> wallpaper_config]
    /\ event_pc' = "unlock"
    /\ UNCHANGED <<surfaces, wallpaper_config, outputs, mutex, reload_pc,
                   reload_new, loop_vars>>

\* new_output: the statement ends and the temporary guard is dropped
e_unlock ==
    /\ event_pc = "unlock"
    /\ mutex' = "free"
    /\ event_pc' = "push"
    /\ UNCHANGED <<surfaces, wallpaper_config, outputs, reload_pc, reload_new,
                   event_tmp, loop_vars>>

\* new_output: self.surfaces.push(Surface::new(...))
e_push ==
    /\ event_pc = "push"
    /\ surfaces' = Append(surfaces,
                          Surface_new(event_tmp.info.name, event_tmp.layer,
                                      event_tmp.output, event_tmp.surface,
                                      event_tmp.info.scale_factor,
                                      event_tmp.wallpaper_info))
    /\ event_pc' = "idle"
    /\ UNCHANGED <<wallpaper_config, outputs, mutex, reload_pc, reload_new,
                   event_tmp, loop_vars>>

\* output_destroyed, between two new_output calls of the event thread
e_output_destroyed ==
    \E o \in outputs :
        /\ event_pc = "idle"
        /\ by_output(surfaces, o) # {}
        /\ surfaces' = swap_remove(surfaces, Min(by_output(surfaces, o)))
        /\ outputs' = outputs \ {o}
        /\ UNCHANGED <<wallpaper_config, lock_vars, loop_vars>>

NextLock ==
    \/ r_start
    \/ r_lock
    \/ \E content \in FileContents : r_parse(content)
    \/ r_store_data
    \/ r_store_rest
    \/ r_unlock
    \/ e_begin
    \/ e_lock
    \/ e_lookup
    \/ e_unlock
    \/ e_push
    \/ e_output_destroyed

SpecLock == Init /\ [][NextLock]_vars

\* a thread that is running takes its next step, and a thread that waits for
\* the lock gets it if the lock is free again and again
FairLock ==
    /\ SF_vars(r_lock)
    /\ SF_vars(e_lock)
    /\ WF_vars(\E content \in FileContents : r_parse(content))
    /\ WF_vars(r_store_data)
    /\ WF_vars(r_store_rest)
    /\ WF_vars(r_unlock)
    /\ WF_vars(e_lookup)
    /\ WF_vars(e_unlock)
    /\ WF_vars(e_push)

SpecLockFair == Init /\ [][NextLock]_vars /\ FairLock

(***************************************************************************)
(* Properties.  event' and calls' describe the handler a step ran, the     *)
(* unprimed variables the state it ran in.                                 *)
(***************************************************************************)
has_call(cs, op) == \E k \in 1..Len(cs) : cs[k][1] = op
the_surface(v, surface) == v[Min(by_surface(v, surface))]
the_layer(v, layer) == v[Min(by_layer(v, layer))]

\* C1: the registry holds exactly one Surface per live output and none for any
\* other output: its length is the number of live outputs, an output handle
\* matches one entry if the output is live and none otherwise, and every
\* layer handle in the registry matches exactly its own entry.
C1_RegistryMatchesLiveOutputs ==
    /\ Len(surfaces) = Cardinality(outputs)
    /\ \A o \in Outputs :
          Cardinality(by_output(surfaces, o)) = (IF o \in outputs THEN 1 ELSE 0)
    /\ \A i \in 1..Len(surfaces) :
          /\ by_layer(surfaces, surfaces[i].layer) = {i}
          /\ surfaces[i].output \in outputs
    /\ Cardinality(layer_ids(surfaces)) = Cardinality(outputs)

\* two outputs appeared, one of them disappeared, the other is still live
C1_Witness ==
    /\ event.kind = "output_destroyed"
    /\ Cardinality(outputs) = 1
    /\ Len(surfaces) = 1

\* C2: a scale-factor-changed event whose factor equals the surface's stored
\* scale changes nothing and calls nothing (no resize, no buffer-scale
\* update); in particular the second of two consecutive events with the same
\* factor for the same surface does neither.
C2_SameFactorIsNoOp ==
    [][ /\ ( /\ event'.kind = "scale_factor_changed"
             /\ the_surface(surfaces, event'.surface).scale = event'.new_factor )
           => ( /\ calls' = <<>>
                /\ surfaces' = surfaces
                /\ wallpaper_config' = wallpaper_config )
        /\ ( /\ event.kind = "scale_factor_changed"
             /\ event'.kind = "scale_factor_changed"
             /\ event'.surface = event.surface
             /\ event'.new_factor = event.new_factor )
           => ( /\ ~has_call(calls', "resize")
                /\ ~has_call(calls', "set_buffer_scale")
                /\ surfaces' = surfaces )
      ]_vars

\* a repeat of the factor a surface already has was delivered and ignored
C2_Witness ==
    /\ event.kind = "scale_factor_changed"
    /\ calls = <<>>
    /\ the_surface(surfaces, event.surface).scale = event.new_factor

C4_NoRenderBeforeConfigure ==
    /\ \A i \in 1..Len(surfaces) :
          surfaces[i].configured => surfaces[i].layer \in acked
    /\ (event.kind = "draw" /\ has_call(calls, "render"))
          => /\ the_surface(surfaces, event.surface).configured
             /\ the_surface(surfaces, event.surface).layer \in acked
    /\ (event.kind = "draw" /\ the_surface(surfaces, event.surface).layer \notin acked)
          => calls = <<>>

\* a draw was asked for a Surface no configure has arrived for, and skipped
C4_Witness ==
    /\ event.kind = "draw"
    /\ the_surface(surfaces, event.surface).layer \notin acked
    /\ calls = <<>>

\* C5: a reload whose re-parse fails returns Err and leaves the store as it
\* was (path, per-output settings, fallback), and the daemon has not aborted.
C5_FailedReloadKeepsConfig ==
    [][ ( /\ event'.kind = "reload_config"
          /\ ~event'.content.parses )
        => ( /\ result' = "Err"
             /\ wallpaper_config' = wallpaper_config
             /\ wallpaper_config'.path = wallpaper_config.path
             /\ wallpaper_config'.data = wallpaper_config.data
             /\ wallpaper_config'.default_config = wallpaper_config.default_config
             /\ ~panicked' )
      ]_vars

\* a reload of an unparsable file has returned Err with Surfaces in place
C5_Witness ==
    /\ event.kind = "reload_config"
    /\ ~event.content.parses
    /\ result = "Err"
    /\ Len(surfaces) > 0

\* C6: a reload whose parsed content equals the configuration in memory does
\* not replace the store, logs no "Configuration updated", returns Ok and
\* changes no Surface; so any number of such reloads leaves the state that
\* zero of them leave.
C6_EqualReloadIsNoOp ==
    [][ ( /\ event'.kind = "reload_config"
          /\ event'.content.parses
          /\ event'.content.data = wallpaper_config.data
          /\ event'.content.default_config = wallpaper_config.default_config )
        => ( /\ calls' = <<>>
             /\ result' = "Ok"
             /\ wallpaper_config' = wallpaper_config
             /\ surfaces' = surfaces )
      ]_vars

\* an equal reload has returned Ok without a notification
C6_Witness ==
    /\ event.kind = "reload_config"
    /\ event.content.parses
    /\ event.content.data = wallpaper_config.data
    /\ result = "Ok"
    /\ calls = <<>>
    /\ Len(surfaces) > 0

\* C7: a reload, whether it replaces the store, finds it equal or fails,
\* leaves the registry and every Surface in it as they were.
C7_ReloadLeavesSurfaces ==
    [][ event'.kind = "reload_config" => surfaces' = surfaces ]_vars

\* the store was replaced and a Surface still holds the settings it was
\* created with, which the new configuration would no longer give it
C7_Witness ==
    /\ event.kind = "reload_config"
    /\ has_call(calls, "store_config")
    /\ \E i \in 1..Len(surfaces) :
          surfaces[i].wallpaper_info
              # get_output_by_name(wallpaper_config, surfaces[i].name)

\* C8: the Surface new_output creates holds the settings of the entry for
\* exactly its output's name if there is one and the fallback settings
\* otherwise; the settings of a Surface are never absent.
C8_ResolvedByNameOrDefault ==
    /\ \A i \in 1..Len(surfaces) : surfaces[i].wallpaper_info \in WallpaperInfos
    /\ event.kind = "new_output" =>
          LET s == surfaces[Len(surfaces)] IN
          /\ s.output = event.output
          /\ s.name = event.info.name
          /\ s.name \in DOMAIN wallpaper_config.data
                => s.wallpaper_info = wallpaper_config.data[s.name]
          /\ s.name \notin DOMAIN wallpaper_config.data
                => s.wallpaper_info = wallpaper_config.default_config

\* eDP-1 is resolved to its own entry A, and HDMI-1, which has no entry, has
\* just been resolved to the fallback D
C8_Witness ==
    /\ event.kind = "new_output"
    /\ event.info.name = "HDMI-1"
    /\ Len(surfaces) = 2
    /\ surfaces[1].name = "eDP-1" /\ surfaces[1].wallpaper_info = "A"
    /\ surfaces[2].name = "HDMI-1" /\ surfaces[2].wallpaper_info = "D"
    /\ "HDMI-1" \notin DOMAIN wallpaper_config.data

\* C9: an output-disappeared event removes the one Surface of that output
\* and keeps every other Surface with all its fields; only positions change.
C9_DestroyRemovesOnlyThatSurface ==
    [][ event'.kind = "output_destroyed"
        => ( /\ Cardinality(by_output(surfaces, event'.output)) = 1
             /\ Len(surfaces') = Len(surfaces) - 1
             /\ by_output(surfaces', event'.output) = {}
             /\ {surfaces'[i] : i \in 1..Len(surfaces')}
                   = {surfaces[i] : i \in 1..Len(surfaces) \ by_output(surfaces, event'.output)} )
      ]_vars

\* one of two outputs disappeared; the other's Surface is still configured
\* and sized
C9_Witness ==
    /\ event.kind = "output_destroyed"
    /\ Len(surfaces) = 1
    /\ surfaces[1].configured
    /\ surfaces[1].dimensions # NoSize
    /\ surfaces[1].output # event.output

\* C10: in scaled-window mode every Surface's scale is 1, at creation and
\* after any later event; otherwise a new Surface has its output's scale.
C10_ScaledWindowPinsScale ==
    /\ use_scaled_window => \A i \in 1..Len(surfaces) : surfaces[i].scale = 1
    /\ (~use_scaled_window /\ event.kind = "new_output")
          => surfaces[Len(surfaces)].scale = event.info.scale_factor

\* a resize the last handler called and that failed
failed_resize(cs) == \E k \in 1..Len(cs) : cs[k][1] = "resize" /\ ~cs[k][4]

\* C11: a resize that fails in a scale-factor-changed or configure event does
\* not abort the daemon and leaves the Surface's configured flag as it was
\* before the event, and the resize is called again when the same factor, or
\* the same size, is delivered to that Surface once more.
C11_FailedResizeIsRetried ==
    [][ /\ ( /\ event'.kind = "scale_factor_changed"
             /\ failed_resize(calls') )
           => ( /\ ~panicked'
                /\ the_surface(surfaces', event'.surface).configured
                      = the_surface(surfaces, event'.surface).configured )
        /\ ( /\ event'.kind = "configure"
             /\ failed_resize(calls') )
           => ( /\ ~panicked'
                /\ the_layer(surfaces', event'.layer).configured
                      = the_layer(surfaces, event'.layer).configured )
        /\ ( /\ event.kind = "scale_factor_changed"
             /\ failed_resize(calls)
             /\ event'.kind = "scale_factor_changed"
             /\ event'.surface = event.surface
             /\ event'.new_factor = event.new_factor )
           => has_call(calls', "resize")
        /\ ( /\ event.kind = "configure"
             /\ failed_resize(calls)
             /\ event'.kind = "configure"
             /\ event'.layer = event.layer
             /\ event'.new_size = event.new_size )
           => has_call(calls', "resize")
      ]_vars

\* the Surfaces other than the one at position i
others(v, i) == [j \in (1..Len(v)) \ {i} |-> v[j]]

\* C14: a transform-changed event sets the transform of the matching
\* Surface's render target and nothing else: no resize is called, and that
\* Surface's scale, dimensions, configured flag and settings, and every other
\* Surface, are as before.
C14_TransformChangesOnlyTransform ==
    [][ event'.kind = "transform_changed"
        => ( /\ calls' = << <<"set_buffer_transform", event'.surface,
                              event'.new_transform>> >>
             /\ ~has_call(calls', "resize")
             /\ surfaces' = surfaces
             /\ wallpaper_config' = wallpaper_config )
      ]_vars

\* a configured, sized Surface beside another one has had its transform set
C14_Witness ==
    /\ event.kind = "transform_changed"
    /\ event.new_transform = "Flipped"
    /\ Len(surfaces) = 2
    /\ the_surface(surfaces, event.surface).configured
    /\ the_surface(surfaces, event.surface).dimensions # NoSize

\* C15: a configure event that proposes the stored dimensions calls no
\* resize; after any configure event the matching Surface is configured and
\* every other Surface, its flag included, is as before.
C15_ConfigureSetsOnlyItsFlag ==
    [][ event'.kind = "configure"
        => LET i == Min(by_layer(surfaces, event'.layer)) IN
           /\ (surfaces[i].dimensions = event'.new_size)
                 => ( /\ ~has_call(calls', "resize")
                      /\ surfaces'[i].dimensions = surfaces[i].dimensions )
           /\ surfaces'[i].layer = event'.layer
           /\ surfaces'[i].configured
           /\ Len(surfaces') = Len(surfaces)
           /\ others(surfaces', i) = others(surfaces, i)
      ]_vars

\* a configure with the size the Surface already has: no resize, flag set,
\* while the other Surface is still unconfigured
C15_Witness ==
    /\ event.kind = "configure"
    /\ ~has_call(calls, "resize")
    /\ the_layer(surfaces, event.layer).configured
    /\ the_layer(surfaces, event.layer).dimensions = event.new_size
    /\ \E j \in 1..Len(surfaces) :
          surfaces[j].layer # event.layer /\ ~surfaces[j].configured

\* C16: a scale-factor-changed event whose factor differs from the stored
\* scale stores the factor, sets it as the render target's buffer scale and
\* calls exactly one resize, without a size, so the dimensions are kept; no
\* other Surface changes.
C16_NewFactorStoredAndResized ==
    [][ ( /\ event'.kind = "scale_factor_changed"
          /\ the_surface(surfaces, event'.surface).scale # event'.new_factor )
        => LET i == Min(by_surface(surfaces, event'.surface)) IN
           /\ surfaces'[i].scale = event'.new_factor
           /\ surfaces'[i].surface.buffer_scale = event'.new_factor
           /\ surfaces'[i].surface.id = event'.surface
           /\ surfaces'[i].dimensions = surfaces[i].dimensions
           /\ surfaces'[i].configured = surfaces[i].configured
           /\ Len(calls') = 2
           /\ calls'[1] = <<"set_buffer_scale", event'.surface, event'.new_factor>>
           /\ calls'[2][1] = "resize"
           /\ calls'[2][2] = event'.surface
           /\ calls'[2][3] = None
           /\ Len(surfaces') = Len(surfaces)
           /\ others(surfaces', i) = others(surfaces, i)
      ]_vars

\* a sized Surface beside another one has taken a new factor
C16_Witness ==
    /\ event.kind = "scale_factor_changed"
    /\ Len(calls) = 2
    /\ Len(surfaces) = 2
    /\ the_surface(surfaces, event.surface).scale = event.new_factor
    /\ the_surface(surfaces, event.surface).dimensions # NoSize

\* the number of "Configuration updated" notifications among the calls
updated_logs(cs) ==
    Cardinality({k \in 1..Len(cs) : cs[k] = <<"log_info", "Configuration updated">>})

\* C17: a reload that parses to a configuration different from the one in
\* memory replaces the whole store with it, in that one step, and logs
\* "Configuration updated" exactly once; nothing but a reload changes the
\* store, so an output that appears later is resolved against the new one.
C17_ChangedReloadReplacesStore ==
    [][ /\ ( /\ event'.kind = "reload_config"
             /\ event'.content.parses
             /\ \/ event'.content.data # wallpaper_config.data
                \/ event'.content.default_config # wallpaper_config.default_config )
           => ( /\ wallpaper_config' = [path |-> wallpaper_config.path,
                                        data |-> event'.content.data,
                                        default_config |-> event'.content.default_config]
                /\ updated_logs(calls') = 1
                /\ result' = "Ok" )
        /\ event'.kind # "reload_config" => wallpaper_config' = wallpaper_config
        /\ event'.kind = "new_output"
           => LET s == surfaces'[Len(surfaces')] IN
              s.wallpaper_info =
                 (IF s.name \in DOMAIN wallpaper_config.data
                  THEN wallpaper_config.data[s.name]
                  ELSE wallpaper_config.default_config)
      ]_vars

\* an output has appeared after a reload replaced the store: the Surface
\* made before the reload holds settings of the old configuration, the one
\* just made those of the new
C17_Witness ==
    /\ event.kind = "new_output"
    /\ Len(surfaces) = 2
    /\ surfaces[1].wallpaper_info
          # get_output_by_name(wallpaper_config, surfaces[1].name)
    /\ surfaces[2].wallpaper_info
          = get_output_by_name(wallpaper_config, surfaces[2].name)

\* C19: for every Surface in the registry the stored scale is the buffer
\* scale last set on its render target, in scaled-window mode as in normal
\* mode.
C19_ScaleIsBufferScale ==
    \A i \in 1..Len(surfaces) : surfaces[i].scale = surfaces[i].surface.buffer_scale

\* C20: while a Surface stays in the registry its configured flag only goes
\* from false to true, and only in a configure event for its own layer: no
\* scale-factor-changed, transform-changed, update_output, configure or
\* reload event clears it.
C20_ConfiguredIsMonotonic ==
    [][ \A i \in 1..Len(surfaces), j \in 1..Len(surfaces') :
          surfaces'[j].output = surfaces[i].output
          => ( /\ surfaces[i].configured => surfaces'[j].configured
               /\ (~surfaces[i].configured /\ surfaces'[j].configured)
                     => ( /\ event'.kind = "configure"
                          /\ event'.layer = surfaces[i].layer ) )
      ]_vars

\* a configured Surface has taken a new scale factor and is still configured
C20_Witness ==
    /\ event.kind = "scale_factor_changed"
    /\ has_call(calls, "resize")
    /\ the_surface(surfaces, event.surface).configured

\* C12: a scale-factor-changed, transform-changed, configure or
\* output-disappeared event that names a handle with no Surface in the
\* registry aborts the daemon, and the registry and the store are as they
\* were when it aborts; after the abort no handler runs.
C12_UnknownHandleAborts ==
    [][ /\ ( \/ stray_scale_factor_changed
             \/ stray_transform_changed
             \/ stray_output_destroyed
             \/ stray_configure )
           => ( /\ panicked'
                /\ surfaces' = surfaces
                /\ wallpaper_config' = wallpaper_config
                /\ calls' = calls )
        /\ panicked => UNCHANGED vars
      ]_vars

\* the daemon has aborted with Surfaces in the registry
C12_Witness ==
    /\ panicked
    /\ Len(surfaces) = 2
    /\ \E i \in 1..Len(surfaces) : surfaces[i].configured

\* C13: with a reload on a thread of its own, what new_output's lookup reads
\* is a whole configuration, the one before the reload's store or the one
\* after it, and the settings it resolves are that configuration's; whenever
\* the reloading thread does not hold the lock the store holds a whole
\* configuration.
C13_NoPartialConfigSeen ==
    /\ mutex # "reload" => wallpaper_config \in FileConfigs
    /\ event_pc \in {"unlock", "push"}
          => /\ event_tmp.seen \in FileConfigs
             /\ event_tmp.wallpaper_info
                   = get_output_by_name(event_tmp.seen, event_tmp.info.name)
    /\ event_pc = "unlock" => event_tmp.seen = wallpaper_config
    /\ ~(event_pc \in {"lookup", "unlock"}
            /\ reload_pc \in {"parse", "store_data", "store_rest", "unlock"})
    /\ \A i \in 1..Len(surfaces) :
          \E c \in FileConfigs :
             surfaces[i].wallpaper_info = get_output_by_name(c, surfaces[i].name)

\* the store is half written while new_output, having read the old
\* configuration before the reload took the lock, is about to push
C13_Witness ==
    /\ reload_pc = "store_rest"
    /\ wallpaper_config \notin FileConfigs
    /\ event_pc = "push"
    /\ event_tmp.seen \in FileConfigs

\* C18: the configuration lock blocks nobody for ever: under fair scheduling
\* a reload that has been triggered and a new_output that has begun both run
\* to their end, whatever the other thread does, and new_output holds the
\* lock only for the lookup, not while it builds the Surface.
C18_LockedOperationsComplete ==
    /\ (reload_pc # "idle") ~> (reload_pc = "idle")
    /\ (event_pc # "idle") ~> (event_pc = "idle")
    /\ [](event_pc = "push" => mutex # "event")
    /\ [](reload_pc = "idle" => mutex # "reload")

\* the event thread waits for the lock while the reload holds it
C18_Witness ==
    /\ event_pc = "lock"
    /\ mutex = "reload"
    /\ reload_pc = "store_rest"

====
